---- MODULE Spec2Model ----
(***************************************************************************)
(* A model of pkg/compiler/compiler.go: the Compile pipeline, architecture *)
(* filtering, flag flattening, attribute parsing and the variable-length   *)
(* determination of structs.                                               *)
(***************************************************************************)
EXTENDS Integers, Sequences, FiniteSets, TLC

VARIABLES
    desc,          \* the description handed to Compile (never modified: Compile clones it)
    consts,        \* the consts argument: "nil" or "map"
    target,        \* the target: [Arch, SyscallNumbers]
    oracle,        \* what each stage whose body lies outside compiler.go reports
    pc,            \* the statement of Compile about to run
    nodes,         \* comp.desc.Nodes
    unsupported,   \* comp.unsupported (map[string]bool)
    intFlags,      \* comp.intFlags: name -> Values of the registered node
    strFlags,      \* comp.strFlags
    errors,        \* comp.errors
    warnings,      \* comp.warnings
    handled,       \* every call of the error handler eh, in order
    entered,       \* the stages entered so far, in order
    syscalls,      \* Compile's local syscalls
    types,         \* Compile's local types
    result,        \* what Compile returned: [ret |-> "running" | "nil" | "prog", ...Prog]
    attrList,      \* the attrs argument of parseAttrs
    attrRes,       \* what parseAttrs returned
    structs,       \* comp.structs: name -> [IsUnion, Attrs, Fields]
    structVarlen,  \* comp.structVarlen, the memo of structIsVarlen
    returned,      \* every <<name, value>> a call structIsVarlen(name) has returned
    trace          \* the field scans begun and ended by the last outermost call

compileVars == <<desc, consts, target, oracle, nodes, unsupported, intFlags, strFlags,
                 warnings, entered, syscalls, types, result>>
attrVars == <<attrList, attrRes>>
varlenVars == <<structs, structVarlen, returned, trace>>

vars == <<pc, errors, handled, compileVars, attrVars, varlenVars>>

(***************************************************************************)
(* Bounds of the model.                                                    *)
(***************************************************************************)
\* stages of one compile whose hidden body reports something
MaxFaults == 2
\* flag-group members written in one description
MaxMembers == 4
\* declarations in one description of the architecture-filter family
MaxNodes == 2
\* attributes on one node
MaxAttrs == 2
\* fields written in one set of struct definitions
MaxFields == 3
\* nested calls of structIsVarlen the stack has room for
MaxDepth == 3

(***************************************************************************)
(* Helpers.                                                                *)
(***************************************************************************)
Range(s) == {s[i] : i \in 1..Len(s)}

Perms(S) == {p \in [1..Cardinality(S) -> S] : \A i, j \in 1..Cardinality(S) : p[i] = p[j] => i = j}

SeqsUpTo(S, n) == UNION {[1..k -> S] : k \in 0..n}

RECURSIVE Concat(_)
Concat(ss) == IF ss = <<>> THEN <<>> ELSE Head(ss) \o Concat(Tail(ss))

(***************************************************************************)
(* The declaration tree.  A node is [kind, name, file, values]; values is  *)
(* the member list of a flag group and empty for every other kind.  A      *)
(* member is [name, value, reps]: an identifier (name # "") or a literal;  *)
(* reps > 1 writes a run of that many consecutive literals as one record.  *)
(***************************************************************************)
TargetArch == "amd64"

\* the arches a file's meta names; none means every arch
FileArches == [f \in {"BUILTINS", "sys.txt", "sys_arm.txt"} |->
                 IF f = "sys_arm.txt" THEN {"arm"} ELSE {}]

SupportsArch(file, arch) == FileArches[file] = {} \/ arch \in FileArches[file]

BuiltinNodes == << [kind |-> "type", name |-> "bool8", file |-> "BUILTINS", values |-> <<>>] >>

GetName(flag) == flag.name

\* len(values): a run of reps literals counts reps
RECURSIVE NumValues(_)
NumValues(values) == IF values = <<>> THEN 0 ELSE Head(values).reps + NumValues(Tail(values))

(***************************************************************************)
(* Diagnostics.  d is [errors, warnings, handled]: comp.errors,            *)
(* comp.warnings and the calls the handler eh has received.  The handler   *)
(* gets (pos, msg); kind and stage are bookkeeping that tells a call made  *)
(* by comp.error from one made by the warnings loop, and names the stage   *)
(* that was running.                                                       *)
(***************************************************************************)
Diag == [errors |-> errors, warnings |-> warnings, handled |-> handled]

SetDiag(d) ==
    /\ errors' = d.errors
    /\ warnings' = d.warnings
    /\ handled' = d.handled

CompError(d, stage, pos, msg) ==
    [d EXCEPT !.errors = @ + 1,
              !.handled = Append(@, [kind |-> "error", stage |-> stage, pos |-> pos, msg |-> msg])]

CompWarning(d, stage, pos, msg) ==
    [d EXCEPT !.warnings = Append(@, [kind |-> "warning", stage |-> stage, pos |-> pos, msg |-> msg])]

\* for _, w := range comp.warnings { eh(w.pos, w.msg) }
DeliverWarnings(d) == [d EXCEPT !.handled = @ \o d.warnings]

RECURSIVE ErrorAll(_, _, _)
ErrorAll(d, stage, errs) ==
    IF errs = <<>> THEN d
    ELSE ErrorAll(CompError(d, stage, Head(errs).pos, Head(errs).msg), stage, Tail(errs))

(***************************************************************************)
(* The stages whose bodies are outside compiler.go.  Each may call         *)
(* comp.error or comp.warning; which one does is an input of the compile.  *)
(***************************************************************************)
HiddenStages == {"typecheck", "extractConsts", "assignSyscallNumbers", "patchConsts", "check",
                 "genSyscalls", "layoutTypes", "generateTypes", "genResources"}

Reports == {"ok", "err", "warn"}

Quiet == [s \in HiddenStages |-> "ok"]

Oracles == {o \in [HiddenStages -> Reports] :
              Cardinality({s \in HiddenStages : o[s] # "ok"}) <= MaxFaults}

HiddenStage(d, stage) ==
    IF oracle[stage] = "err" THEN CompError(d, stage, stage, "hidden")
    ELSE IF oracle[stage] = "warn" THEN CompWarning(d, stage, stage, "hidden")
    ELSE d

(***************************************************************************)
(* filterArch.                                                             *)
(***************************************************************************)
\* a filter that keeps every declaration
KeepAll(n) == TRUE

\* case *ast.Resource, *ast.Struct, *ast.Call, *ast.TypeDef
IsRecordedKind(kind) == kind \in {"resource", "struct", "union", "syscall", "type"}

UnsupportedKey(n) == n.kind \o " " \o n.name

\* return fileMeta.SupportsArch(comp.target.Arch)
FilterArchKeep(n) == SupportsArch(n.file, target.Arch)

\* desc.Filter with the callback of filterArch: the nodes the callback keeps, in
\* their order
Filter(ns) == SelectSeq(ns, FilterArchKeep)

FilterArchUnsupported(ns, unsup) ==
    LET added == {UnsupportedKey(ns[i]) : i \in {j \in 1..Len(ns) :
                     ~FilterArchKeep(ns[j]) /\ IsRecordedKind(ns[j].kind)}}
    IN  [k \in DOMAIN unsup \cup added |-> TRUE]

(***************************************************************************)
(* Flag flattening.                                                        *)
(***************************************************************************)
MaxFlagValues == 100000

\* the message naming no group
VisitedErrUnnamed(name) == [type |-> "used twice or circular dependency", name |-> "", count |-> 0]

NoErr == [type |-> "none", name |-> "", count |-> 0]
\* "flags %v used twice or circular dependency on %v"
VisitedErr(name) == [type |-> "used twice or circular dependency", name |-> name, count |-> 0]
\* "%v has more than 100000 values %v"
TooManyErr(name, n) == [type |-> "more than 100000 values", name |-> name, count |-> n]

\* if _, visited := visitedFlags[name]; visited
AlreadyVisited(name, visitedFlags) == name \in visitedFlags

\* the referenced group's values spliced in ahead of the values gathered so far
SpliceInFront(values, flat) == flat \o values

\* values = append(values, allFlags[flag.GetName()].GetValues()...)
SpliceValues(values, flat) == values \o flat

\* a limit that lets one value more through
OverLimitByTwo(values) == NumValues(values) > MaxFlagValues + 1

\* if len(values) > 100000
OverLimit(values) == NumValues(values) > MaxFlagValues

RECURSIVE RecurFlattenFlags(_, _, _), FlattenMembers(_, _, _, _, _)

\* the loop over flags.GetValues(); r.values is the local values
FlattenMembers(members, i, values, allFlags, visitedFlags) ==
    IF i > Len(members)
    THEN [err |-> NoErr, values |-> values, allFlags |-> allFlags, visitedFlags |-> visitedFlags]
    ELSE LET flag == members[i] IN
         IF GetName(flag) \in DOMAIN allFlags
         THEN LET r == RecurFlattenFlags(GetName(flag), allFlags, visitedFlags) IN
              IF r.err # NoErr
              THEN [err |-> r.err, values |-> values, allFlags |-> r.allFlags,
                    visitedFlags |-> r.visitedFlags]
              ELSE FlattenMembers(members, i + 1, SpliceValues(values, r.allFlags[GetName(flag)]),
                                  r.allFlags, r.visitedFlags)
         ELSE FlattenMembers(members, i + 1, Append(values, flag), allFlags, visitedFlags)

\* returns [err, allFlags, visitedFlags]: the error, the groups after SetValues, the visited set
RecurFlattenFlags(name, allFlags, visitedFlags) ==
    IF AlreadyVisited(name, visitedFlags)
    THEN [err |-> VisitedErr(name), allFlags |-> allFlags, visitedFlags |-> visitedFlags]
    ELSE LET r == FlattenMembers(allFlags[name], 1, <<>>, allFlags, visitedFlags \cup {name}) IN
         IF r.err # NoErr
         THEN [err |-> r.err, allFlags |-> r.allFlags, visitedFlags |-> r.visitedFlags]
         ELSE IF OverLimit(r.values)
         THEN [err |-> TooManyErr(name, NumValues(r.values)), allFlags |-> r.allFlags,
               visitedFlags |-> r.visitedFlags]
         ELSE [err |-> NoErr, allFlags |-> [r.allFlags EXCEPT ![name] = r.values],
               visitedFlags |-> r.visitedFlags]

\* flattenIntFlags / flattenStrFlags with the range loop visiting the names in `order`;
\* returns [allFlags, errs], errs the comp.error calls made, in order
RECURSIVE FlattenInOrder(_, _, _)
FlattenInOrder(order, allFlags, errs) ==
    IF order = <<>> THEN [allFlags |-> allFlags, errs |-> errs]
    ELSE LET name == Head(order)
             r == RecurFlattenFlags(name, allFlags, {})
         IN  FlattenInOrder(Tail(order), r.allFlags,
                            IF r.err # NoErr THEN Append(errs, [pos |-> name, msg |-> r.err])
                            ELSE errs)

\* the loop over comp.desc.Nodes that ends flattenFlags
CopyFlagValues(ns, ints, strs) ==
    [i \in 1..Len(ns) |->
        IF ns[i].kind = "flags" /\ ns[i].name \in DOMAIN ints
        THEN [ns[i] EXCEPT !.values = ints[ns[i].name]]
        ELSE IF ns[i].kind = "string flags" /\ ns[i].name \in DOMAIN strs
        THEN [ns[i] EXCEPT !.values = strs[ns[i].name]]
        ELSE ns[i]]

\* checkNames (run by typecheck) registers the first flag group declared under each name
RegisterFlags(ns, kind) ==
    LET names == {ns[i].name : i \in {j \in 1..Len(ns) : ns[j].kind = kind}}
        first(nm) == CHOOSE i \in 1..Len(ns) :
                        /\ ns[i].kind = kind /\ ns[i].name = nm
                        /\ \A j \in 1..(i - 1) : ~(ns[j].kind = kind /\ ns[j].name = nm)
    IN  [nm \in names |-> ns[first(nm)].values]

(***************************************************************************)
(* The generation steps, which read comp.desc.Nodes.                       *)
(***************************************************************************)
IsCall(n) == n.kind = "syscall"
IsResource(n) == n.kind = "resource"
IsStructOrUnion(n) == n.kind \in {"struct", "union"}

GenSyscalls(ns) == SelectSeq(ns, IsCall)
GenerateTypes(ns) == SelectSeq(ns, IsStructOrUnion)
GenResources(ns) == SelectSeq(ns, IsResource)

\* the identifiers left in the flag groups: the constants the description needs
ExtractConsts(ns) ==
    UNION {{ns[i].values[k].name : k \in 1..Len(ns[i].values)} :
             i \in {j \in 1..Len(ns) : ns[j].kind = "flags"}} \ {""}

(***************************************************************************)
(* Compile.                                                                *)
(***************************************************************************)
NoProg == [Resources |-> <<>>, Syscalls |-> <<>>, Types |-> <<>>, Unsupported |-> <<>>,
           fileConsts |-> {}]

Running == [ret |-> "running", prog |-> NoProg]
ReturnNil == [ret |-> "nil", prog |-> NoProg]
Return(prg) == [ret |-> "prog", prog |-> prg]

\* createCompiler(desc.Clone(), target, eh)
CreateCompiler(d, c, t, o) ==
    /\ desc = d
    /\ consts = c
    /\ target = t
    /\ oracle = o
    /\ pc = "filterArch"
    /\ nodes = BuiltinNodes \o d
    /\ unsupported = <<>>
    /\ intFlags = <<>>
    /\ strFlags = <<>>
    /\ errors = 0
    /\ warnings = <<>>
    /\ handled = <<>>
    /\ entered = <<>>
    /\ syscalls = <<>>
    /\ types = <<>>
    /\ result = Running
    /\ attrList = <<>>
    /\ attrRes = <<>>
    /\ structs = <<>>
    /\ structVarlen = <<>>
    /\ returned = {}
    /\ trace = <<>>

\* comp.filterArch()
FilterArch ==
    /\ pc = "filterArch"
    /\ entered' = Append(entered, "filterArch")
    /\ nodes' = Filter(nodes)
    /\ unsupported' = FilterArchUnsupported(nodes, unsupported)
    /\ pc' = "typecheck"
    /\ UNCHANGED <<desc, consts, target, oracle, intFlags, strFlags, errors, warnings,
                   handled, syscalls, types, result, attrVars, varlenVars>>

\* comp.typecheck()
Typecheck ==
    /\ pc = "typecheck"
    /\ entered' = Append(entered, "typecheck")
    /\ intFlags' = RegisterFlags(nodes, "flags")
    /\ strFlags' = RegisterFlags(nodes, "string flags")
    /\ SetDiag(HiddenStage(Diag, "typecheck"))
    /\ pc' = "flattenFlags"
    /\ UNCHANGED <<desc, consts, target, oracle, nodes, unsupported, syscalls, types, result, attrVars, varlenVars>>

\* if comp.errors != 0 { return nil }; then the choice of the next stage
AfterFlatten(d) ==
    IF d.errors # 0 THEN "return nil"
    ELSE IF consts = "nil" THEN "extractConsts"
    ELSE IF target.SyscallNumbers THEN "assignSyscallNumbers"
    ELSE "patchConsts"

\* comp.flattenFlags() and the check that follows it
FlattenFlags ==
    /\ pc = "flattenFlags"
    /\ entered' = Append(entered, "flattenFlags")
    /\ \E intOrder \in Perms(DOMAIN intFlags), strOrder \in Perms(DOMAIN strFlags) :
          LET ri == FlattenInOrder(intOrder, intFlags, <<>>)
              rs == FlattenInOrder(strOrder, strFlags, <<>>)
              d  == ErrorAll(ErrorAll(Diag, "flattenFlags", ri.errs), "flattenFlags", rs.errs)
          IN  /\ intFlags' = ri.allFlags
              /\ strFlags' = rs.allFlags
              /\ nodes' = CopyFlagValues(nodes, ri.allFlags, rs.allFlags)
              /\ SetDiag(d)
              /\ pc' = IF AfterFlatten(d) = "return nil" THEN "done" ELSE AfterFlatten(d)
              /\ result' = IF AfterFlatten(d) = "return nil" THEN ReturnNil ELSE result
    /\ UNCHANGED <<desc, consts, target, oracle, unsupported, syscalls, types, attrVars, varlenVars>>

\* the extraction result returned whatever was raised
ExtractReturnUnchecked(d, ns) == Return([NoProg EXCEPT !.fileConsts = ExtractConsts(ns)])

\* fileConsts := comp.extractConsts(); if comp.errors != 0 { return nil }
\* return &Prog{fileConsts: fileConsts}
ExtractReturn(d, ns) ==
    IF d.errors # 0 THEN ReturnNil
    ELSE Return([NoProg EXCEPT !.fileConsts = ExtractConsts(ns)])

ExtractConstsStage ==
    /\ pc = "extractConsts"
    /\ entered' = Append(entered, "extractConsts")
    /\ LET d == HiddenStage(Diag, "extractConsts") IN
          /\ SetDiag(d)
          /\ result' = ExtractReturn(d, nodes)
    /\ pc' = "done"
    /\ UNCHANGED <<desc, consts, target, oracle, nodes, unsupported, intFlags, strFlags,
                   syscalls, types, attrVars, varlenVars>>

\* a stage that is followed by no check: assignSyscallNumbers, patchConsts,
\* genSyscalls, layoutTypes
Stage(stage, next) ==
    /\ pc = stage
    /\ entered' = Append(entered, stage)
    /\ SetDiag(HiddenStage(Diag, stage))
    /\ pc' = next

AssignSyscallNumbers ==
    /\ Stage("assignSyscallNumbers", "patchConsts")
    /\ UNCHANGED <<desc, consts, target, oracle, nodes, unsupported, intFlags, strFlags,
                   syscalls, types, result, attrVars, varlenVars>>

PatchConsts ==
    /\ Stage("patchConsts", "check")
    /\ UNCHANGED <<desc, consts, target, oracle, nodes, unsupported, intFlags, strFlags,
                   syscalls, types, result, attrVars, varlenVars>>

\* no barrier after the check stage
AfterCheckUnchecked(d) == "genSyscalls"

\* comp.check(consts); if comp.errors != 0 { return nil }
AfterCheck(d) == IF d.errors # 0 THEN "return nil" ELSE "genSyscalls"

Check ==
    /\ pc = "check"
    /\ entered' = Append(entered, "check")
    /\ LET d == HiddenStage(Diag, "check") IN
          /\ SetDiag(d)
          /\ pc' = IF AfterCheck(d) = "return nil" THEN "done" ELSE AfterCheck(d)
          /\ result' = IF AfterCheck(d) = "return nil" THEN ReturnNil ELSE result
    /\ UNCHANGED <<desc, consts, target, oracle, nodes, unsupported, intFlags, strFlags,
                   syscalls, types, attrVars, varlenVars>>

\* syscalls := comp.genSyscalls()
GenSyscallsStage ==
    /\ Stage("genSyscalls", "layoutTypes")
    /\ syscalls' = GenSyscalls(nodes)
    /\ UNCHANGED <<desc, consts, target, oracle, nodes, unsupported, intFlags, strFlags,
                   types, result, attrVars, varlenVars>>

\* comp.layoutTypes(syscalls)
LayoutTypes ==
    /\ Stage("layoutTypes", "generateTypes")
    /\ UNCHANGED <<desc, consts, target, oracle, nodes, unsupported, intFlags, strFlags,
                   syscalls, types, result, attrVars, varlenVars>>

\* types := comp.generateTypes(syscalls)
GenerateTypesStage ==
    /\ Stage("generateTypes", "genResources")
    /\ types' = GenerateTypes(nodes)
    /\ UNCHANGED <<desc, consts, target, oracle, nodes, unsupported, intFlags, strFlags,
                   syscalls, result, attrVars, varlenVars>>

\* the result returned whatever was raised
FinalReturnUnchecked(d, prg) == Return(prg)

\* the warnings delivered whatever was raised
FinalDiagUnchecked(d) == DeliverWarnings(d)

\* prg := &Prog{...}; if comp.errors != 0 { return nil }; the warnings loop; return prg
FinalReturn(d, prg) == IF d.errors # 0 THEN ReturnNil ELSE Return(prg)

FinalDiag(d) == IF d.errors # 0 THEN d ELSE DeliverWarnings(d)

GenResourcesStage ==
    /\ pc = "genResources"
    /\ entered' = Append(entered, "genResources")
    /\ LET d == HiddenStage(Diag, "genResources")
           prg == [Resources |-> GenResources(nodes), Syscalls |-> syscalls, Types |-> types,
                   Unsupported |-> unsupported, fileConsts |-> {}]
       IN  /\ SetDiag(FinalDiag(d))
           /\ result' = FinalReturn(d, prg)
    /\ pc' = "done"
    /\ UNCHANGED <<desc, consts, target, oracle, nodes, unsupported, intFlags, strFlags,
                   syscalls, types, attrVars, varlenVars>>

Next ==
    \/ FilterArch
    \/ Typecheck
    \/ FlattenFlags
    \/ ExtractConstsStage
    \/ AssignSyscallNumbers
    \/ PatchConsts
    \/ Check
    \/ GenSyscallsStage
    \/ LayoutTypes
    \/ GenerateTypesStage
    \/ GenResourcesStage

(***************************************************************************)
(* The descriptions the checks run on.                                     *)
(***************************************************************************)
Lit(v) == [name |-> "", value |-> v, reps |-> 1]
Ref(nm) == [name |-> nm, value |-> 0, reps |-> 1]
Node(kind, name, file, values) == [kind |-> kind, name |-> name, file |-> file, values |-> values]

\* A = {1, 2, B}, B = {3, 4}, and one declaration of each other kind
DescChain ==
    << Node("flags", "A", "sys.txt", <<Lit(1), Lit(2), Ref("B")>>),
       Node("flags", "B", "sys.txt", <<Lit(3), Lit(4)>>),
       Node("syscall", "open", "sys.txt", <<>>),
       Node("syscall", "ioctl", "sys_arm.txt", <<>>),
       Node("struct", "s", "sys.txt", <<>>),
       Node("resource", "fd", "sys.txt", <<>>) >>

\* C = {1, D}, D = {C}
DescCycle ==
    << Node("flags", "C", "sys.txt", <<Lit(1), Ref("D")>>),
       Node("flags", "D", "sys.txt", <<Ref("C")>>),
       Node("syscall", "open", "sys.txt", <<>>) >>

\* string flags: S = {"x", T}, T = {"y"}, and U = {U}; F = {O_RDONLY, 7}
DescStrings ==
    << Node("flags", "F", "sys.txt", <<Ref("O_RDONLY"), Lit(7)>>),
       Node("struct", "arm_regs", "sys_arm.txt", <<>>),
       Node("string flags", "S", "sys.txt", <<Ref("x"), Ref("T")>>),
       Node("string flags", "T", "sys.txt", <<Ref("y")>>),
       Node("string flags", "U", "sys_arm.txt", <<Ref("U")>>),
       Node("syscall", "open", "sys.txt", <<>>) >>

SampleDescs == {DescChain, DescCycle, DescStrings}

\* every description of up to three integer flag groups A, B, C, declared in this
\* order, with MaxMembers members in all; a member is a literal or one of the names
FlagNames == <<"A", "B", "C">>
FlagSymbols == {"", "A", "B", "C"}

FlagMember(sym, g, i) == IF sym = "" THEN Lit(10 * g + i) ELSE Ref(sym)

FlagNode(g, syms) ==
    Node("flags", FlagNames[g], "sys.txt", [i \in 1..Len(syms) |-> FlagMember(syms[i], g, i)])

FlagLengths == {l \in (0..MaxMembers) \X (0..MaxMembers) \X (0..MaxMembers) :
                  l[1] + l[2] + l[3] <= MaxMembers}

FlagShapes == UNION {[1..l[1] -> FlagSymbols] \X [1..l[2] -> FlagSymbols] \X [1..l[3] -> FlagSymbols] :
                       l \in FlagLengths}

\* a group with no member is not declared
FlagDesc(shape) ==
    Concat([g \in 1..3 |-> IF shape[g] = <<>> THEN <<>> ELSE <<FlagNode(g, shape[g])>>])

FlagDescs == {FlagDesc(shape) : shape \in FlagShapes}

\* every description of up to MaxNodes declarations over two names and two files
ArchKinds == {"syscall", "resource", "struct", "union", "type", "flags"}

ArchNodes == {Node(k, nm, f, IF k = "flags" THEN <<Lit(1)>> ELSE <<>>) :
                k \in ArchKinds, nm \in {"a", "b"}, f \in {"sys.txt", "sys_arm.txt"}}

ArchDescs == SeqsUpTo(ArchNodes, MaxNodes)

Targets == [Arch : {TargetArch}, SyscallNumbers : BOOLEAN]

\* extraction mode, and a full compile for a target with syscall numbers
BothModes == {<<"nil", [Arch |-> TargetArch, SyscallNumbers |-> FALSE]>>,
              <<"map", [Arch |-> TargetArch, SyscallNumbers |-> TRUE]>>}

(***************************************************************************)
(* Specifications.                                                         *)
(***************************************************************************)
\* the sample descriptions under every behaviour of the hidden stages
Init ==
    \E d \in SampleDescs, c \in {"nil", "map"}, t \in Targets, o \in Oracles :
        CreateCompiler(d, c, t, o)

Spec == Init /\ [][Next]_vars

\* the flag-group descriptions, the hidden stages reporting nothing
InitFlags ==
    \E d \in FlagDescs \cup SampleDescs, m \in BothModes : CreateCompiler(d, m[1], m[2], Quiet)

SpecFlags == InitFlags /\ [][Next]_vars

\* the declaration trees, the hidden stages reporting nothing
InitArch ==
    \E d \in ArchDescs, m \in BothModes : CreateCompiler(d, m[1], m[2], Quiet)

SpecArch == InitArch /\ [][Next]_vars

\* every description of two integer flag groups A and B with MaxMembers members in
\* all; a member of A is one literal, a run of half the limit or of the limit of
\* literals, or the name B; a member of B is one literal or such a run
Run(v, r) == [name |-> "", value |-> v, reps |-> r]

LimitSymbols == {"one", "half", "full", "B"}

LimitMember(sym, g, i) ==
    IF sym = "B" THEN Ref("B")
    ELSE Run(10 * g + i, IF sym = "one" THEN 1
                         ELSE IF sym = "half" THEN MaxFlagValues \div 2
                         ELSE MaxFlagValues)

LimitNode(g, syms) ==
    Node("flags", FlagNames[g], "sys.txt", [i \in 1..Len(syms) |-> LimitMember(syms[i], g, i)])

LimitLengths == {l \in (0..MaxMembers) \X (0..MaxMembers) : l[1] + l[2] <= MaxMembers}

LimitShapes == UNION {[1..l[1] -> LimitSymbols] \X [1..l[2] -> LimitSymbols \ {"B"}] :
                        l \in LimitLengths}

LimitDesc(shape) ==
    Concat([g \in 1..2 |-> IF shape[g] = <<>> THEN <<>> ELSE <<LimitNode(g, shape[g])>>])

LimitDescs == {LimitDesc(shape) : shape \in LimitShapes}

\* the descriptions near the limit of values, the hidden stages reporting nothing
InitLimit ==
    \E d \in LimitDescs, m \in BothModes : CreateCompiler(d, m[1], m[2], Quiet)

SpecLimit == InitLimit /\ [][Next]_vars

(***************************************************************************)
(* Attribute parsing.  An attribute, like each of its arguments, is an     *)
(* ast.Type: [Ident, HasString, String, Value, Colon, Args], Colon the     *)
(* number of colon parts.  The position of the i-th attribute of a list is *)
(* [attr |-> i, at |-> "attr"], of its first colon part at |-> "colon", of *)
(* its first argument at |-> "arg".                                        *)
(***************************************************************************)
TypeNode(ident, hasString, str, value, colon, args) ==
    [Ident |-> ident, HasString |-> hasString, String |-> str, Value |-> value,
     Colon |-> colon, Args |-> args]

IdentNode(ident, colon, args) == TypeNode(ident, FALSE, "", 0, colon, args)
IntNode(v, colon) == TypeNode("", FALSE, "", v, colon, <<>>)
StrNode(str) == TypeNode("", TRUE, str, 0, 0, <<>>)

\* one descriptor of each attrDesc type, as the attribute tables hold them
AttrDescs == [a \in {"packed", "align", "if", "fsck"} |->
                 IF a = "packed" THEN "flagAttr"
                 ELSE IF a = "align" THEN "intAttr"
                 ELSE IF a = "if" THEN "exprAttr" ELSE "stringAttr"]

\* unionAttrs and attrVarlen
UnionAttrs == [a \in {"varlen", "size"} |-> IF a = "varlen" THEN "flagAttr" ELSE "intAttr"]
AttrVarlen == "varlen"

\* checkTypeKind: a string is a string, an identifier passes for an identifier or an
\* int, anything else is an int
CheckTypeKind(t, kind) ==
    IF t.HasString THEN kind = "kindString"
    ELSE IF t.Ident # "" THEN kind \in {"kindIdent", "kindInt"}
    ELSE kind = "kindInt"

\* comp.genExpression(arg)
GenExpression(arg) == <<"expr", arg.Ident, arg.Value>>
NilExpression == <<"nil">>

AttrError(d, i, at, msg, ident) ==
    CompError(d, "parseAttrs", [attr |-> i, at |-> at], [type |-> msg, attr |-> ident])

\* the argument taken as it comes
ParseAttrIntArgUnchecked(attr, i, d) ==
    [value |-> IF Len(attr.Args) >= 1 THEN attr.Args[1].Value ELSE 0, d |-> d]

\* each returns [value, d]
ParseAttrIntArg(attr, i, d) ==
    IF Len(attr.Args) # 1
    THEN [value |-> 0, d |-> AttrError(d, i, "attr", "is expected to have 1 argument", attr.Ident)]
    ELSE LET sz == attr.Args[1] IN
         IF ~CheckTypeKind(sz, "kindInt")
         THEN [value |-> 0, d |-> AttrError(d, i, "arg", "unexpected, expect int", attr.Ident)]
         ELSE IF sz.Colon # 0 \/ Len(sz.Args) # 0
         THEN [value |-> 0, d |-> AttrError(d, i, "arg", "has colon or args", attr.Ident)]
         ELSE [value |-> sz.Value, d |-> d]

ParseAttrExprArg(attr, i, d) ==
    IF Len(attr.Args) # 1
    THEN [value |-> NilExpression,
          d |-> AttrError(d, i, "attr", "is expected to have only one argument", attr.Ident)]
    ELSE IF attr.Args[1].HasString
    THEN [value |-> NilExpression,
          d |-> AttrError(d, i, "attr", "argument must be an expression", attr.Ident)]
    ELSE [value |-> GenExpression(attr.Args[1]), d |-> d]

ParseAttrStringArg(attr, i, d) ==
    IF Len(attr.Args) # 1
    THEN [value |-> "",
          d |-> AttrError(d, i, "attr", "is expected to have 1 argument", attr.Ident)]
    ELSE IF ~attr.Args[1].HasString
    THEN [value |-> "", d |-> AttrError(d, i, "attr", "argument must be a string", attr.Ident)]
    ELSE [value |-> attr.Args[1].String, d |-> d]

\* m[k] = v on a Go map
MapSet(m, k, v) == [x \in DOMAIN m \cup {k} |-> IF x = k THEN v ELSE m[x]]
\* m[k] on a Go map of integers, nil included
MapGet(m, k) == IF k \in DOMAIN m THEN m[k] ELSE 0

AttrResult(resInt, resExpr, resString, d) ==
    [resInt |-> resInt, resExpr |-> resExpr, resString |-> resString, isNil |-> FALSE, d |-> d]
\* return nil, nil, nil
NilAttrResult(d) ==
    [resInt |-> <<>>, resExpr |-> <<>>, resString |-> <<>>, isNil |-> TRUE, d |-> d]

\* no key taken for a duplicate
NeverDuplicate(ident, resInt, resExpr, resString) == FALSE

\* _, dupInt := resInt[desc]; ... if dupInt || dupExpr || dupString
IsDuplicate(ident, resInt, resExpr, resString) ==
    ident \in DOMAIN resInt \/ ident \in DOMAIN resExpr \/ ident \in DOMAIN resString

\* the loop of parseAttrs from the i-th attribute on; a descriptor is named by its key
RECURSIVE ParseAttrsFrom(_, _, _, _, _, _, _)
ParseAttrsFrom(descs, attrs, i, resInt, resExpr, resString, d) ==
    IF i > Len(attrs) THEN AttrResult(resInt, resExpr, resString, d)
    ELSE LET attr == attrs[i] IN
         IF ~CheckTypeKind(attr, "kindIdent")
         THEN AttrResult(resInt, resExpr, resString,
                         AttrError(d, i, "attr", "unexpected, expect attribute", attr.Ident))
         ELSE IF attr.Colon # 0
         THEN AttrResult(resInt, resExpr, resString,
                         AttrError(d, i, "colon", "unexpected ':'", attr.Ident))
         ELSE IF attr.Ident \notin DOMAIN descs
         THEN AttrResult(resInt, resExpr, resString,
                         AttrError(d, i, "attr", "unknown attribute", attr.Ident))
         ELSE IF IsDuplicate(attr.Ident, resInt, resExpr, resString)
         THEN AttrResult(resInt, resExpr, resString,
                         AttrError(d, i, "attr", "duplicate attribute", attr.Ident))
         ELSE IF descs[attr.Ident] = "flagAttr"
         THEN IF Len(attr.Args) # 0
              THEN NilAttrResult(AttrError(d, i, "attr", "attribute has args", attr.Ident))
              ELSE ParseAttrsFrom(descs, attrs, i + 1, MapSet(resInt, attr.Ident, 1),
                                  resExpr, resString, d)
         ELSE IF descs[attr.Ident] = "intAttr"
         THEN LET r == ParseAttrIntArg(attr, i, d) IN
              ParseAttrsFrom(descs, attrs, i + 1, MapSet(resInt, attr.Ident, r.value),
                             resExpr, resString, r.d)
         ELSE IF descs[attr.Ident] = "exprAttr"
         THEN LET r == ParseAttrExprArg(attr, i, d) IN
              ParseAttrsFrom(descs, attrs, i + 1, resInt,
                             MapSet(resExpr, attr.Ident, r.value), resString, r.d)
         ELSE IF descs[attr.Ident] = "stringAttr"
         THEN LET r == ParseAttrStringArg(attr, i, d) IN
              ParseAttrsFrom(descs, attrs, i + 1, resInt, resExpr,
                             MapSet(resString, attr.Ident, r.value), r.d)
         ELSE NilAttrResult(AttrError(d, i, "attr", "attribute has unknown type", attr.Ident))

ParseAttrs(descs, attrs, d) == ParseAttrsFrom(descs, attrs, 1, <<>>, <<>>, <<>>, d)

\* parseIntAttrs returns [resInt, d]
ParseIntAttrs(descs, attrs, d) ==
    LET r == ParseAttrs(descs, attrs, d) IN [resInt |-> r.resInt, d |-> r.d]

(***************************************************************************)
(* structIsVarlen.  A struct is [IsUnion, Attrs, Fields], a field is       *)
(* [Type, Attrs], a field type [kind, Ident]: an integer, a pointer or a   *)
(* struct or union by value.  st is [memo, d, returned, trace]: the memo   *)
(* comp.structVarlen, the diagnostics, and the bookkeeping of the calls    *)
(* made (what each returned, which field scans began and ended).  A call   *)
(* nested deeper than the stack has room for ends the program: the trace   *)
(* records it as "overflow".                                               *)
(***************************************************************************)
\* structFieldAttrs[attr.Ident] == attrIf
IsIfAttr(attr) == attr.Ident = "if"

\* for _, attr := range fld.Attrs { if ... { hasIfAttr = true } }
HasIfAttr(fld) == \E k \in 1..Len(fld.Attrs) : IsIfAttr(fld.Attrs[k])

VarlenReturn(name, v, st) == [res |-> v, st |-> [st EXCEPT !.returned = @ \cup {<<name, v>>}]]

\* comp.structVarlen[name] = false // to not hang on recursive types
Provisional == FALSE

\* a memo that answers only for the structs it holds as true
MemoizedTrue(name, memo) == name \in DOMAIN memo /\ memo[name]

\* if varlen, ok := comp.structVarlen[name]; ok
Memoized(name, memo) == name \in DOMAIN memo

\* the field scans begun and not yet ended
RECURSIVE InProgress(_)
InProgress(tr) ==
    IF tr = <<>> THEN 0
    ELSE InProgress(Tail(tr)) + (IF Head(tr)[1] = "scan" THEN 1
                                 ELSE IF Head(tr)[1] = "end" THEN -1 ELSE 0)

StackOverflow(name, st) ==
    [res |-> FALSE, st |-> [st EXCEPT !.trace = Append(@, <<"overflow", name>>)]]

RECURSIVE StructIsVarlen(_, _), ScanFields(_, _, _), IsVarlen(_, _)

\* comp.isVarlen(t): a struct or union is asked of structIsVarlen, an integer and a
\* pointer are not varlen
IsVarlen(t, st) ==
    IF t.kind = "struct" THEN StructIsVarlen(t.Ident, st)
    ELSE [res |-> FALSE, st |-> st]

\* the loop over s.Fields from the i-th field on; returns [res, st]
ScanFields(fields, i, st) ==
    IF i > Len(fields) THEN [res |-> FALSE, st |-> st]
    ELSE IF HasIfAttr(fields[i]) THEN [res |-> TRUE, st |-> st]
    ELSE LET r == IsVarlen(fields[i].Type, st) IN
         IF r.res THEN [res |-> TRUE, st |-> r.st]
         ELSE ScanFields(fields, i + 1, r.st)

StructIsVarlen(name, st) ==
    IF Memoized(name, st.memo) THEN VarlenReturn(name, st.memo[name], st)
    ELSE IF InProgress(st.trace) >= MaxDepth THEN StackOverflow(name, st)
    ELSE LET s == structs[name]
             pa == IF s.IsUnion THEN ParseIntAttrs(UnionAttrs, s.Attrs, st.d)
                   ELSE [resInt |-> <<>>, d |-> st.d]
         IN  IF s.IsUnion /\ MapGet(pa.resInt, AttrVarlen) # 0
             THEN VarlenReturn(name, TRUE,
                               [st EXCEPT !.memo = MapSet(@, name, TRUE), !.d = pa.d])
             ELSE LET seeded == [st EXCEPT !.memo = MapSet(@, name, Provisional), !.d = pa.d,
                                           !.trace = Append(@, <<"scan", name>>)]
                      r == ScanFields(s.Fields, 1, seeded)
                  IN  VarlenReturn(name, r.res,
                                   [r.st EXCEPT !.memo = MapSet(@, name, r.res),
                                                !.trace = Append(@, <<"end", name>>)])

(***************************************************************************)
(* The attribute lists and struct definitions the checks run on.           *)
(***************************************************************************)
ArgNodes == {IntNode(4, 0), IntNode(8, 0), IntNode(4, 1), StrNode("s")}
ArgLists == {<<>>} \cup {<<a>> : a \in ArgNodes} \cup {<<IntNode(4, 0), IntNode(8, 0)>>}
AttrIdents == {"packed", "align", "if", "fsck", "bogus"}
AttrNodes == {IdentNode(id, colon, args) : id \in AttrIdents, colon \in 0..1, args \in ArgLists}
               \cup {IntNode(4, 0), StrNode("s")}
AttrLists == SeqsUpTo(AttrNodes, MaxAttrs)

\* the attribute lists a union is given
UnionAttrLists ==
    { <<>>,
      <<IdentNode("varlen", 0, <<>>)>>,
      <<IdentNode("varlen", 0, <<IntNode(4, 0)>>)>>,
      <<IdentNode("varlen", 0, <<>>), IdentNode("bogus", 0, <<>>)>>,
      <<IdentNode("bogus", 0, <<>>), IdentNode("varlen", 0, <<>>)>>,
      <<IdentNode("varlen", 0, <<>>), IdentNode("varlen", 0, <<>>)>>,
      <<IdentNode("varlen", 0, <<>>), IdentNode("size", 0, <<IntNode(8, 0)>>)>>,
      <<IdentNode("size", 0, <<>>), IdentNode("varlen", 0, <<>>)>>,
      <<IdentNode("varlen", 0, <<>>), IdentNode("size", 0, <<IntNode(8, 0)>>),
        IdentNode("packed", 0, <<>>)>> }

\* every pair of definitions A, B with MaxFields fields in all; a field is an integer,
\* an integer with an if attribute, a pointer to the struct itself, or A or B by value;
\* A is a struct or a union with one of the attribute lists, B a struct
StructNames == <<"A", "B">>
FieldSymbols == {"int", "int if", "ptr", "A", "B"}

Field(sym, self) ==
    IF sym = "int" THEN [Type |-> [kind |-> "int", Ident |-> "int32"], Attrs |-> <<>>]
    ELSE IF sym = "int if"
    THEN [Type |-> [kind |-> "int", Ident |-> "int32"],
          Attrs |-> <<IdentNode("if", 0, <<IntNode(4, 0)>>)>>]
    ELSE IF sym = "ptr" THEN [Type |-> [kind |-> "ptr", Ident |-> self], Attrs |-> <<>>]
    ELSE [Type |-> [kind |-> "struct", Ident |-> sym], Attrs |-> <<>>]

FieldLengths == {l \in (0..MaxFields) \X (0..MaxFields) : l[1] + l[2] <= MaxFields}
FieldShapes == UNION {[1..l[1] -> FieldSymbols] \X [1..l[2] -> FieldSymbols] : l \in FieldLengths}

StructDef(isUnion, attrs, syms, self) ==
    [IsUnion |-> isUnion, Attrs |-> attrs, Fields |-> [i \in 1..Len(syms) |-> Field(syms[i], self)]]

StructSets ==
    {[n \in {"A", "B"} |-> IF n = "A" THEN StructDef(FALSE, <<>>, shape[1], "A")
                           ELSE StructDef(FALSE, <<>>, shape[2], "B")] : shape \in FieldShapes}
    \cup
    {[n \in {"A", "B"} |-> IF n = "A" THEN StructDef(TRUE, attrs, shape[1], "A")
                           ELSE StructDef(FALSE, <<>>, shape[2], "B")] :
        shape \in FieldShapes, attrs \in UnionAttrLists}

(***************************************************************************)
(* parseAttrs and structIsVarlen as called by the checking and generation  *)
(* stages.                                                                 *)
(***************************************************************************)
Idle(at) ==
    /\ pc = at
    /\ errors = 0
    /\ handled = <<>>
    /\ desc = <<>>
    /\ consts = "map"
    /\ target = [Arch |-> TargetArch, SyscallNumbers |-> FALSE]
    /\ oracle = Quiet
    /\ nodes = <<>>
    /\ unsupported = <<>>
    /\ intFlags = <<>>
    /\ strFlags = <<>>
    /\ warnings = <<>>
    /\ entered = <<>>
    /\ syscalls = <<>>
    /\ types = <<>>
    /\ result = Running

InitAttrs ==
    /\ Idle("parseAttrs")
    /\ attrList \in AttrLists
    /\ attrRes = <<>>
    /\ structs = <<>>
    /\ structVarlen = <<>>
    /\ returned = {}
    /\ trace = <<>>

\* comp.parseAttrs(descs, parent, attrs)
ParseAttrsCall ==
    /\ pc = "parseAttrs"
    /\ LET r == ParseAttrs(AttrDescs, attrList, Diag) IN
          /\ attrRes' = [resInt |-> r.resInt, resExpr |-> r.resExpr,
                         resString |-> r.resString, isNil |-> r.isNil]
          /\ errors' = r.d.errors
          /\ handled' = r.d.handled
    /\ pc' = "parsed"
    /\ UNCHANGED <<compileVars, attrList, varlenVars>>

NextAttrs == ParseAttrsCall

SpecAttrs == InitAttrs /\ [][NextAttrs]_vars

InitVarlen ==
    /\ Idle("structIsVarlen")
    /\ attrList = <<>>
    /\ attrRes = <<>>
    /\ structs \in StructSets
    /\ structVarlen = <<>>
    /\ returned = {}
    /\ trace = <<>>

\* comp.structIsVarlen(name), called from outside
StructIsVarlenCall(name) ==
    /\ pc = "structIsVarlen"
    /\ LET r == StructIsVarlen(name, [memo |-> structVarlen, d |-> Diag,
                                      returned |-> returned, trace |-> <<>>])
       IN  /\ structVarlen' = r.st.memo
           /\ returned' = r.st.returned
           /\ trace' = r.st.trace
           /\ errors' = r.st.d.errors
           /\ handled' = r.st.d.handled
    /\ UNCHANGED <<pc, compileVars, attrVars, structs>>

NextVarlen == \E name \in DOMAIN structs : StructIsVarlenCall(name)

SpecVarlen == InitVarlen /\ [][NextVarlen]_vars

(***************************************************************************)
(* What the claims speak of.                                               *)
(***************************************************************************)
Done == pc = "done"
Entered(stage) == stage \in Range(entered)

IsError(e) == e.kind = "error"
IsWarning(e) == e.kind = "warning"
ErrorsHandled == SelectSeq(handled, IsError)
WarningsHandled == SelectSeq(handled, IsWarning)
ErrorsOf(stage) == {i \in 1..Len(handled) : handled[i].kind = "error" /\ handled[i].stage = stage}

\* the tree filterArch leaves, and the flag groups as declared in it
FilteredDesc == Filter(BuiltinNodes \o desc)
DeclaredFlags(kind) == RegisterFlags(FilteredDesc, kind)

\* the names of the groups of one kind in declaration order
RECURSIVE DeclOrder(_, _, _)
DeclOrder(ns, kind, seen) ==
    IF ns = <<>> THEN <<>>
    ELSE IF Head(ns).kind = kind /\ Head(ns).name \notin seen
    THEN <<Head(ns).name>> \o DeclOrder(Tail(ns), kind, seen \cup {Head(ns).name})
    ELSE DeclOrder(Tail(ns), kind, seen)

\* the diagnostics (pos, msg) the flattening stage raised
FlattenDiags == {[pos |-> handled[i].pos, msg |-> handled[i].msg] : i \in ErrorsOf("flattenFlags")}

(***************************************************************************)
(* C1: Compile is deterministic: the same description, target and constant *)
(* map give the same outcome (nil or not, the flag groups' Values, the set *)
(* of error diagnostics) whatever order the range loops of flattenIntFlags *)
(* and flattenStrFlags visit the flag maps in.  The outcome is compared    *)
(* with that of the run which visits the groups in declaration order.      *)
(***************************************************************************)
RefFlatten(kind) == FlattenInOrder(DeclOrder(FilteredDesc, kind, {}), DeclaredFlags(kind), <<>>)

OracleErrors(stage) == IF oracle[stage] = "err" THEN 1 ELSE 0

RefReturnsNil ==
    IF OracleErrors("typecheck") + Len(RefFlatten("flags").errs)
         + Len(RefFlatten("string flags").errs) # 0
    THEN TRUE
    ELSE IF consts = "nil" THEN OracleErrors("extractConsts") # 0
    ELSE (IF target.SyscallNumbers THEN OracleErrors("assignSyscallNumbers") ELSE 0)
           + OracleErrors("patchConsts") + OracleErrors("check") + OracleErrors("genSyscalls")
           + OracleErrors("layoutTypes") + OracleErrors("generateTypes")
           + OracleErrors("genResources") # 0

C1_Deterministic ==
    Done =>
        /\ (result.ret = "nil") = RefReturnsNil
        /\ FlattenDiags = Range(RefFlatten("flags").errs) \cup Range(RefFlatten("string flags").errs)
        /\ result.ret # "nil" =>
              /\ intFlags = RefFlatten("flags").allFlags
              /\ strFlags = RefFlatten("string flags").allFlags

\* a compile that failed on a "used twice" error which the run visiting the groups in
\* declaration order does not raise
C1_Witness ==
    /\ Done
    /\ oracle = Quiet
    /\ result.ret = "nil"
    /\ FlattenDiags # {}
    /\ RefFlatten("flags").errs = <<>>
    /\ RefFlatten("string flags").errs = <<>>

(***************************************************************************)
(* C2: every stage transition of Compile is a barrier.                     *)
(***************************************************************************)
EarlyStages == {"filterArch", "typecheck", "flattenFlags"}
ConstStages == {"assignSyscallNumbers", "patchConsts", "check"}
GenStages == {"genSyscalls", "layoutTypes", "generateTypes", "genResources"}
AllStages == EarlyStages \cup {"extractConsts"} \cup ConstStages \cup GenStages

ConsecutiveStages ==
    { <<"filterArch", "typecheck">>, <<"typecheck", "flattenFlags">>,
      <<"flattenFlags", "extractConsts">>, <<"flattenFlags", "assignSyscallNumbers">>,
      <<"flattenFlags", "patchConsts">>, <<"assignSyscallNumbers", "patchConsts">>,
      <<"patchConsts", "check">>, <<"check", "genSyscalls">>,
      <<"genSyscalls", "layoutTypes">>, <<"layoutTypes", "generateTypes">>,
      <<"generateTypes", "genResources">> }

SomeStageRaised == \E s \in AllStages : ErrorsOf(s) # {}

\* C2 as stated: after a stage that raised an error the next stage is never entered,
\* and Compile returns nil
C2_EveryTransitionIsBarrier ==
    /\ \A p \in ConsecutiveStages : ErrorsOf(p[1]) # {} => ~Entered(p[2])
    /\ Done /\ SomeStageRaised => result.ret = "nil"

\* C2 amended: the error counter is checked after flattenFlags, after extractConsts,
\* after check and after genResources only.  An error raised by filterArch, typecheck
\* or flattenFlags keeps every stage after flattenFlags from being entered; an error
\* raised by assignSyscallNumbers, patchConsts or check keeps every generation step
\* from being entered; and a compile in which any stage raised an error returns nil.
C2_Barriers ==
    /\ \A s \in EarlyStages, t \in AllStages \ EarlyStages : ErrorsOf(s) # {} => ~Entered(t)
    /\ \A s \in ConstStages, t \in GenStages : ErrorsOf(s) # {} => ~Entered(t)
    /\ Done /\ SomeStageRaised => result.ret = "nil"

\* typecheck raised an error, flattenFlags still ran, and the compile stopped there
C2_Witness ==
    /\ Done
    /\ ErrorsOf("typecheck") # {}
    /\ entered = <<"filterArch", "typecheck", "flattenFlags">>
    /\ result.ret = "nil"

(***************************************************************************)
(* C3: Compile returns nil if and only if at least one error diagnostic    *)
(* reached the handler, and comp.errors counts the error diagnostics       *)
(* delivered.                                                              *)
(***************************************************************************)
C3_NilIffError ==
    /\ errors = Len(ErrorsHandled)
    /\ Done => ((result.ret = "nil") <=> (Len(ErrorsHandled) >= 1))

\* a failed compile that delivered two diagnostics
C3_Witness == Done /\ result.ret = "nil" /\ Len(ErrorsHandled) = 2 /\ errors = 2

(***************************************************************************)
(* C6: two-phase compile.                                                  *)
(***************************************************************************)
EarlyStagesClean == \A s \in EarlyStages : ErrorsOf(s) = {}

FullStagesOf(t) ==
    (IF t.SyscallNumbers THEN {"assignSyscallNumbers"} ELSE {}) \cup {"patchConsts", "check"}
      \cup GenStages

ExtractOnlyProg == [NoProg EXCEPT !.fileConsts = ExtractConsts(nodes)]

\* in every state: a nil constant map never leads into the full pipeline, a non-nil
\* one never into extractConsts
C6_ModeSeparation ==
    /\ consts = "nil" => \A s \in ConstStages \cup GenStages : ~Entered(s)
    /\ consts = "map" => ~Entered("extractConsts")

C6_FullCompile ==
    Done /\ consts = "map" /\ ~SomeStageRaised =>
        /\ \A s \in FullStagesOf(target) : Entered(s)
        /\ result.ret = "prog"

\* C6 as stated: with a nil constant map and error-free early stages, Compile runs
\* extractConsts and returns a result carrying only the extracted constant set
C6_TwoPhase ==
    /\ C6_ModeSeparation
    /\ C6_FullCompile
    /\ Done /\ consts = "nil" /\ EarlyStagesClean =>
          /\ Entered("extractConsts")
          /\ result = Return(ExtractOnlyProg)

\* C6 amended: ... Compile runs extractConsts and returns nil if extractConsts raised
\* an error, and otherwise a result carrying only the extracted constant set
C6_TwoPhaseAmended ==
    /\ C6_ModeSeparation
    /\ C6_FullCompile
    /\ Done /\ consts = "nil" /\ EarlyStagesClean =>
          /\ Entered("extractConsts")
          /\ result = IF ErrorsOf("extractConsts") # {} THEN ReturnNil
                      ELSE Return(ExtractOnlyProg)

\* an extraction-mode compile that returned its constants although comp.unsupported
\* had an entry to carry
C6_Witness ==
    /\ Done /\ consts = "nil"
    /\ result.ret = "prog"
    /\ result.prog.fileConsts = {"O_RDONLY"}
    /\ DOMAIN unsupported # {}
    /\ entered = <<"filterArch", "typecheck", "flattenFlags", "extractConsts">>

Bare(n) == [kind |-> n.kind, name |-> n.name, file |-> n.file]
BareSeq(ns) == [i \in 1..Len(ns) |-> Bare(ns[i])]

FileSupportsTarget(n) == SupportsArch(n.file, target.Arch)

\* the declarations filterArch has to remove and record
ExcludedDecls ==
    {n \in Range(BuiltinNodes \o desc) :
        ~FileSupportsTarget(n) /\ n.kind \in {"resource", "struct", "union", "syscall", "type"}}

ExcludedCalls == {n \in ExcludedDecls : n.kind = "syscall"}

TreeIsSupportedPart ==
    Entered("filterArch") => BareSeq(nodes) = BareSeq(SelectSeq(BuiltinNodes \o desc, FileSupportsTarget))

ExcludedCallsNotGenerated ==
    Done /\ result.ret = "prog" =>
        \A n \in ExcludedCalls : Bare(n) \notin Range(BareSeq(result.prog.Syscalls))

\* the reason an entry of the unsupported set carries; a bare bool carries none
ReasonOf(v) == IF v \in BOOLEAN THEN "none" ELSE v.reason

\* C8 as stated: every removed declaration is recorded under "<kind> <name>" tagged
\* with an architecture-exclusion reason
C8_FilterArchTagged ==
    /\ TreeIsSupportedPart
    /\ ExcludedCallsNotGenerated
    /\ Entered("filterArch") =>
          \A n \in ExcludedDecls :
              /\ (n.kind \o " " \o n.name) \in DOMAIN unsupported
              /\ ReasonOf(unsupported[n.kind \o " " \o n.name]) = "architecture"

\* C8 amended: ... every removed resource, struct, call or type alias is recorded in
\* the unsupported set under the key "<kind> <name>" with the value true (the set is
\* a map to bool and stores no reason) ...
C8_FilterArch ==
    /\ TreeIsSupportedPart
    /\ ExcludedCallsNotGenerated
    /\ Entered("filterArch") =>
          \A n \in ExcludedDecls :
              /\ (n.kind \o " " \o n.name) \in DOMAIN unsupported
              /\ unsupported[n.kind \o " " \o n.name] = TRUE

\* a compile for which one call was removed and recorded while a call declared
\* second, in a supported file, was kept and generated
C8_Witness ==
    /\ Done /\ result.ret = "prog"
    /\ Len(desc) = 2
    /\ desc[1].kind = "syscall" /\ ~FileSupportsTarget(desc[1])
    /\ desc[2].kind = "syscall" /\ FileSupportsTarget(desc[2])
    /\ DOMAIN unsupported = {"syscall " \o desc[1].name}
    /\ BareSeq(result.prog.Syscalls) = <<Bare(desc[2])>>

(***************************************************************************)
(* The reference graph of a set of flag groups fl (name -> declared        *)
(* members): g refers to h when a member of g names h.                     *)
(***************************************************************************)
FlagKinds == {"flags", "string flags"}
FlagsNow(kind) == IF kind = "flags" THEN intFlags ELSE strFlags

IsGroupRef(fl, m) == m.name \in DOMAIN fl
RefNames(fl, g) == {fl[g][i].name : i \in {j \in 1..Len(fl[g]) : IsGroupRef(fl, fl[g][j])}}

RECURSIVE ReachFrom(_, _, _)
ReachFrom(fl, frontier, seen) ==
    LET next == UNION {RefNames(fl, g) : g \in frontier} \ seen
    IN  IF next = {} THEN seen ELSE ReachFrom(fl, next, seen \cup next)

\* the groups reachable from g by one or more references
Reach(fl, g) == ReachFrom(fl, {g}, {}) \cup RefNames(fl, g)

OnCycle(fl, g) == g \in Reach(fl, g)
Acyclic(fl) == \A g \in DOMAIN fl : ~OnCycle(fl, g)

\* the number of chains of references leading from g to h, in an acyclic graph
RECURSIVE PathCount(_, _, _), PathSum(_, _, _, _)
PathSum(fl, members, i, h) ==
    IF i > Len(members) THEN 0
    ELSE (IF IsGroupRef(fl, members[i]) THEN PathCount(fl, members[i].name, h) ELSE 0)
           + PathSum(fl, members, i + 1, h)
PathCount(fl, g, h) == IF g = h THEN 1 ELSE PathSum(fl, fl[g], 1, h)

UsedOnce(fl) == \A g, h \in DOMAIN fl : PathCount(fl, g, h) <= 1

\* the in-order depth-first expansion of g, in an acyclic graph
RECURSIVE Expand(_, _), ExpandMembers(_, _, _)
ExpandMembers(fl, members, i) ==
    IF i > Len(members) THEN <<>>
    ELSE (IF IsGroupRef(fl, members[i]) THEN Expand(fl, members[i].name) ELSE <<members[i]>>)
           \o ExpandMembers(fl, members, i + 1)
Expand(fl, g) == ExpandMembers(fl, fl[g], 1)

\* the number of literals reachable from g, each counted once per chain that reaches it
RECURSIVE LeafCount(_, _), LeafSum(_, _, _)
LeafSum(fl, members, i) ==
    IF i > Len(members) THEN 0
    ELSE (IF IsGroupRef(fl, members[i]) THEN LeafCount(fl, members[i].name)
          ELSE members[i].reps) + LeafSum(fl, members, i + 1)
LeafCount(fl, g) == LeafSum(fl, fl[g], 1)

FlattenedAsExpanded(kind) ==
    /\ \A g \in DOMAIN DeclaredFlags(kind) :
          /\ FlagsNow(kind)[g] = Expand(DeclaredFlags(kind), g)
          /\ NumValues(FlagsNow(kind)[g]) = LeafCount(DeclaredFlags(kind), g)
    /\ \A i \in ErrorsOf("flattenFlags") : handled[i].pos \notin DOMAIN DeclaredFlags(kind)

(***************************************************************************)
(* C4: flattening an acyclic set of flag groups raises no error and sets   *)
(* every group to its in-order depth-first expansion.                      *)
(***************************************************************************)
\* C4 as stated: for every acyclic reference graph, also one in which a group is
\* referenced more than once
C4_AcyclicFlattens ==
    Entered("flattenFlags") =>
        \A kind \in FlagKinds : Acyclic(DeclaredFlags(kind)) => FlattenedAsExpanded(kind)

\* C4 amended: for every acyclic reference graph in which no group is reached from a
\* group along two different chains of references, and whose expansions hold at most
\* 100,000 values
C4_TreeShapedFlattens ==
    Entered("flattenFlags") =>
        \A kind \in FlagKinds :
            (/\ Acyclic(DeclaredFlags(kind))
             /\ UsedOnce(DeclaredFlags(kind))
             /\ \A g \in DOMAIN DeclaredFlags(kind) :
                   LeafCount(DeclaredFlags(kind), g) <= MaxFlagValues)
            => FlattenedAsExpanded(kind)

\* A = {1, 2, B} with B = {3, 4} has become {1, 2, 3, 4}
C4_Witness ==
    /\ Entered("flattenFlags")
    /\ DeclaredFlags("flags") = [g \in {"A", "B"} |->
          IF g = "A" THEN <<Lit(1), Lit(2), Ref("B")>> ELSE <<Lit(3), Lit(4)>>]
    /\ intFlags["A"] = <<Lit(1), Lit(2), Lit(3), Lit(4)>>
    /\ intFlags["B"] = <<Lit(3), Lit(4)>>
    /\ nodes[2].values = <<Lit(1), Lit(2), Lit(3), Lit(4)>>
    /\ errors = 0

(***************************************************************************)
(* C5: a flag group on a reference cycle is rejected and left as declared. *)
(***************************************************************************)
VisitedErrorsFor(g) ==
    {i \in ErrorsOf("flattenFlags") :
        handled[i].pos = g /\ handled[i].msg.type = "used twice or circular dependency"}

\* the groups that lie on a cycle through g
CycleOf(fl, g) == {h \in Reach(fl, g) : g \in Reach(fl, h)}

\* C5 as stated: the error raised for G names a group on the cycle
C5_CycleRejected ==
    Entered("flattenFlags") =>
        \A kind \in FlagKinds : \A g \in DOMAIN DeclaredFlags(kind) :
            OnCycle(DeclaredFlags(kind), g) =>
                /\ Cardinality(VisitedErrorsFor(g)) = 1
                /\ \A i \in VisitedErrorsFor(g) :
                      handled[i].msg.name \in CycleOf(DeclaredFlags(kind), g)
                /\ FlagsNow(kind)[g] = DeclaredFlags(kind)[g]

\* C5 amended: the error raised for G names a group reachable from G that G's
\* expansion reached a second time; it need not lie on the cycle
C5_CycleRejectedAmended ==
    Entered("flattenFlags") =>
        \A kind \in FlagKinds : \A g \in DOMAIN DeclaredFlags(kind) :
            OnCycle(DeclaredFlags(kind), g) =>
                /\ Cardinality(VisitedErrorsFor(g)) = 1
                /\ \A i \in VisitedErrorsFor(g) :
                      handled[i].msg.name \in Reach(DeclaredFlags(kind), g)
                /\ FlagsNow(kind)[g] = DeclaredFlags(kind)[g]

\* a group on a cycle, rejected with a message that names a group off the cycle
C5_Witness ==
    /\ Entered("flattenFlags")
    /\ \E g \in DOMAIN DeclaredFlags("flags") :
          /\ OnCycle(DeclaredFlags("flags"), g)
          /\ \E i \in VisitedErrorsFor(g) :
                handled[i].msg.name \notin CycleOf(DeclaredFlags("flags"), g)
          /\ intFlags[g] = DeclaredFlags("flags")[g]

(***************************************************************************)
(* Attribute lists: well-formed attributes, repeated keys.                 *)
(***************************************************************************)
Parsed == pc = "parsed"
KeyOf(attr) == attr.Ident
IsAttrIdent(attr) == ~attr.HasString /\ attr.Ident # ""

\* an attribute that names a descriptor and is written as the descriptor's type asks
WellFormed(attr) ==
    /\ IsAttrIdent(attr)
    /\ attr.Colon = 0
    /\ KeyOf(attr) \in DOMAIN AttrDescs
    /\ IF AttrDescs[KeyOf(attr)] = "flagAttr" THEN attr.Args = <<>>
       ELSE /\ Len(attr.Args) = 1
            /\ IF AttrDescs[KeyOf(attr)] = "stringAttr" THEN attr.Args[1].HasString
               ELSE IF AttrDescs[KeyOf(attr)] = "exprAttr" THEN ~attr.Args[1].HasString
               ELSE /\ ~attr.Args[1].HasString
                    /\ attr.Args[1].Colon = 0
                    /\ attr.Args[1].Args = <<>>

\* the value a well-formed attribute states
StatedValue(attr) ==
    IF AttrDescs[KeyOf(attr)] = "flagAttr" THEN 1
    ELSE IF AttrDescs[KeyOf(attr)] = "intAttr" THEN attr.Args[1].Value
    ELSE IF AttrDescs[KeyOf(attr)] = "exprAttr" THEN GenExpression(attr.Args[1])
    ELSE attr.Args[1].String

\* the map of the returned three that holds the key's type
ReturnedMap(key) ==
    IF AttrDescs[key] \in {"flagAttr", "intAttr"} THEN attrRes.resInt
    ELSE IF AttrDescs[key] = "exprAttr" THEN attrRes.resExpr
    ELSE attrRes.resString

Repeats(j) == \E i \in 1..(j - 1) : IsAttrIdent(attrList[j]) /\ KeyOf(attrList[i]) = KeyOf(attrList[j])
FirstOf(j) == CHOOSE i \in 1..(j - 1) : KeyOf(attrList[i]) = KeyOf(attrList[j])

\* the j-th attribute repeats the key of an earlier one, and every attribute before it
\* is well formed and itself repeats none
SecondOccurrence(j) ==
    /\ Repeats(j)
    /\ \A k \in 1..(j - 1) : WellFormed(attrList[k]) /\ ~Repeats(k)

DuplicateErrorAt(j) ==
    \E h \in 1..Len(handled) :
        /\ IsError(handled[h])
        /\ handled[h].pos = [attr |-> j, at |-> "attr"]
        /\ handled[h].msg = [type |-> "duplicate attribute", attr |-> KeyOf(attrList[j])]

FirstValueKept(j) ==
    /\ ~attrRes.isNil
    /\ KeyOf(attrList[j]) \in DOMAIN ReturnedMap(KeyOf(attrList[j]))
    /\ ReturnedMap(KeyOf(attrList[j]))[KeyOf(attrList[j])] = StatedValue(attrList[FirstOf(j)])

\* C9 as stated: whenever a key occurs a second time after well-formed attributes,
\* parseAttrs raises the duplicate-attribute error at the second occurrence and the
\* returned maps hold the first occurrence's value.
C9_DuplicateRejected ==
    Parsed =>
        \A j \in 1..Len(attrList) :
            SecondOccurrence(j) => DuplicateErrorAt(j) /\ FirstValueKept(j)

\* C9: whenever a key occurs a second time after well-formed attributes and the second
\* occurrence carries no colon part, parseAttrs raises the duplicate-attribute error at
\* the second occurrence; with or without a colon part exactly one error is raised and
\* the returned maps hold the first occurrence's value.
C9_DuplicateRejectedAmended ==
    Parsed =>
        \A j \in 1..Len(attrList) :
            SecondOccurrence(j) =>
                /\ attrList[j].Colon = 0 => DuplicateErrorAt(j)
                /\ errors = 1
                /\ FirstValueKept(j)

\* two alignment attributes stating different values: the error is raised, 4 is kept
C9_Witness ==
    /\ Parsed
    /\ \E j \in 1..Len(attrList) :
          /\ SecondOccurrence(j)
          /\ KeyOf(attrList[j]) = "align"
          /\ WellFormed(attrList[j])
          /\ StatedValue(attrList[j]) = 8
          /\ DuplicateErrorAt(j)
          /\ attrRes.resInt["align"] = 4

(***************************************************************************)
(* The declared meaning of variable length: the least set of structs       *)
(* closed under the rule.                                                  *)
(***************************************************************************)
CarriesVarlen(s) == \E k \in 1..Len(s.Attrs) : s.Attrs[k].Ident = "varlen"
CarriesIf(fld) == \E k \in 1..Len(fld.Attrs) : fld.Attrs[k].Ident = "if"

DeclaredStep(V) ==
    {n \in DOMAIN structs :
        \/ structs[n].IsUnion /\ CarriesVarlen(structs[n])
        \/ \E k \in 1..Len(structs[n].Fields) :
              \/ CarriesIf(structs[n].Fields[k])
              \/ /\ structs[n].Fields[k].Type.kind = "struct"
                 /\ structs[n].Fields[k].Type.Ident \in V}

RECURSIVE DeclaredFix(_)
DeclaredFix(V) == IF DeclaredStep(V) = V THEN V ELSE DeclaredFix(DeclaredStep(V))
DeclaredVarlen == DeclaredFix({})

OnlyIntFields(s) ==
    \A k \in 1..Len(s.Fields) : s.Fields[k].Type.kind = "int" /\ s.Fields[k].Attrs = <<>>

\* C10 as stated: once the outermost call has returned without a diagnostic, every
\* memoized value, the returned one among them, is the declared one.
C10_VarlenAsDeclared ==
    errors = 0 =>
        \A n \in DOMAIN structVarlen : structVarlen[n] = (n \in DeclaredVarlen)

\* B holds A by value, A holds B and then a field with an if attribute; asked of A
\* first, B is memoized as fixed-size although it contains the variable-length A
C10_Witness ==
    /\ errors = 0
    /\ ~structs["A"].IsUnion
    /\ Len(structs["A"].Fields) = 2
    /\ structs["A"].Fields[1].Type = [kind |-> "struct", Ident |-> "B"]
    /\ CarriesIf(structs["A"].Fields[2])
    /\ Len(structs["B"].Fields) = 1
    /\ structs["B"].Fields[1].Type = [kind |-> "struct", Ident |-> "A"]
    /\ DOMAIN structVarlen = {"A", "B"}
    /\ structVarlen["A"]
    /\ ~structVarlen["B"]

(***************************************************************************)
(* C11: structIsVarlen terminates with a boolean on every set of struct    *)
(* definitions, also on structs that point to or contain themselves or     *)
(* each other: no field list is entered again while its own scan is still  *)
(* in progress.                                                            *)
(***************************************************************************)
Scans(n) == {i \in 1..Len(trace) : trace[i] = <<"scan", n>>}
Ends(n) == {i \in 1..Len(trace) : trace[i] = <<"end", n>>}
Overflows == {i \in 1..Len(trace) : trace[i][1] = "overflow"}

\* between two scans of one struct lies the end of the first
NoReentry ==
    \A n \in DOMAIN structs : \A i, j \in Scans(n) :
        i < j => \E k \in Ends(n) : i < k /\ k < j

\* every scan begun has ended, and the calls never nest deeper than there are structs
ScansEnd ==
    /\ InProgress(trace) = 0
    /\ \A k \in 1..Len(trace) : InProgress(SubSeq(trace, 1, k)) <= Cardinality(DOMAIN structs)

\* C11: every call of structIsVarlen returns, and returns a boolean: the stack never
\* overflows, every scan begun has ended, the calls nest no deeper than there are
\* structs, every value returned or memoized is a boolean, and no struct's field
\* list is entered while a scan of it is in progress.  The same holds of the call
\* that could be made next, for every struct.
C11_Terminates ==
    /\ Overflows = {}
    /\ ScansEnd
    /\ NoReentry
    /\ \A r \in returned : r[2] \in BOOLEAN
    /\ \A n \in DOMAIN structVarlen : structVarlen[n] \in BOOLEAN
    /\ \A n \in DOMAIN structs :
          LET r == StructIsVarlen(n, [memo |-> structVarlen, d |-> Diag,
                                      returned |-> returned, trace |-> <<>>])
          IN  r.res \in BOOLEAN /\ n \in DOMAIN r.st.memo

\* A holds a pointer to itself and B by value, B holds A by value: asked of A, both
\* field lists were scanned once, B's inside A's
C11_Witness ==
    /\ \E k \in 1..Len(structs["A"].Fields) :
          structs["A"].Fields[k].Type = [kind |-> "ptr", Ident |-> "A"]
    /\ \E k \in 1..Len(structs["A"].Fields) :
          structs["A"].Fields[k].Type = [kind |-> "struct", Ident |-> "B"]
    /\ \E k \in 1..Len(structs["B"].Fields) :
          structs["B"].Fields[k].Type = [kind |-> "struct", Ident |-> "A"]
    /\ trace = << <<"scan", "A">>, <<"scan", "B">>, <<"end", "B">>, <<"end", "A">> >>
    /\ <<"A", FALSE>> \in returned
    /\ DOMAIN structVarlen = {"A", "B"}

(***************************************************************************)
(* C12: the variable-length determination is computed once and is stable.  *)
(***************************************************************************)
EmptyMemo == [memo |-> <<>>, d |-> [errors |-> 0, warnings |-> <<>>, handled |-> <<>>],
              returned |-> {}, trace |-> <<>>]

\* the memo table left by asking of every struct in the order given
RECURSIVE MemoAfter(_, _)
MemoAfter(order, st) ==
    IF order = <<>> THEN st.memo
    ELSE MemoAfter(Tail(order), [StructIsVarlen(Head(order), st).st EXCEPT !.trace = <<>>])

AllQueried == DOMAIN structVarlen = DOMAIN structs

\* C12 as stated: all calls for one struct return one value, a lookup made during
\* another struct's analysis included, and once every struct has been asked of, the
\* memo table is the one that asking in the order A, B leaves
C12_Stable ==
    /\ \A r1, r2 \in returned : r1[1] = r2[1] => r1[2] = r2[2]
    /\ AllQueried => structVarlen = MemoAfter(StructNames, EmptyMemo)

\* B asked of first: a memo table that differs from the one the order A, B leaves,
\* with no diagnostic raised
C12_Witness ==
    /\ AllQueried
    /\ errors = 0
    /\ structVarlen # MemoAfter(StructNames, EmptyMemo)
    /\ \E n \in DOMAIN structs : <<n, TRUE>> \in returned /\ <<n, FALSE>> \in returned

(***************************************************************************)
(* C13: where parseAttrs stops.                                            *)
(***************************************************************************)
\* malformed as the claim lists it: unknown name, wrong kind, wrong argument count
\* or type, or a duplicate key
Malformed(j) == ~WellFormed(attrList[j]) \/ Repeats(j)

\* the malformations at which the loop of parseAttrs returns: not an identifier, a
\* colon part, an unknown name, a duplicate key, a flag attribute with arguments
Stopping(j) ==
    \/ ~IsAttrIdent(attrList[j])
    \/ attrList[j].Colon # 0
    \/ KeyOf(attrList[j]) \notin DOMAIN AttrDescs
    \/ Repeats(j)
    \/ AttrDescs[KeyOf(attrList[j])] = "flagAttr" /\ attrList[j].Args # <<>>

\* the one left: an integer, expression or string attribute with a wrong argument
ArgError(j) == Malformed(j) /\ ~Stopping(j)

FirstWhere(P(_)) ==
    IF \E j \in 1..Len(attrList) : P(j)
    THEN CHOOSE j \in 1..Len(attrList) : P(j) /\ \A k \in 1..(j - 1) : ~P(k)
    ELSE Len(attrList) + 1

ErrorAttrs == [h \in 1..Len(handled) |-> handled[h].pos.attr]

Increasing(seq) == \A a, b \in 1..Len(seq) : a < b => seq[a] < seq[b]

\* C13 as stated: a call raises an error exactly if some attribute is malformed, the
\* error is the first malformed attribute's, and it is the only one
C13_StopsAtFirst ==
    Parsed =>
        /\ errors <= 1
        /\ \A h \in 1..Len(handled) : handled[h].pos.attr = FirstWhere(Malformed)
        /\ (errors = 1) <=> (\E j \in 1..Len(attrList) : Malformed(j))

\* C13 amended: parseAttrs stops at the first attribute that is not an identifier,
\* carries a colon part, has an unknown name, repeats a key or is a flag attribute
\* with arguments: it raises one error there and examines no later attribute.  An
\* integer, expression or string attribute with a wrong argument count or type before
\* that point raises one error each and parsing goes on.  The errors are raised in
\* list order, one per such attribute, so a call raises at most as many errors as
\* the list has attributes.
C13_StopsAtFirstStopping ==
    Parsed =>
        LET m == FirstWhere(Stopping)
            bad == {j \in 1..Len(attrList) : (j < m /\ ArgError(j)) \/ j = m}
        IN  /\ errors = Cardinality(bad)
            /\ Len(handled) = errors
            /\ \A h \in 1..Len(handled) : IsError(handled[h]) /\ ErrorAttrs[h] \in bad
            /\ Increasing(ErrorAttrs)
            /\ errors <= Len(attrList)

\* an alignment attribute without its argument followed by an unknown attribute and
\* a third one: two errors, the third attribute not examined
C13_Witness ==
    /\ Parsed
    /\ Len(attrList) >= 2
    /\ attrList[1] = IdentNode("align", 0, <<>>)
    /\ KeyOf(attrList[2]) = "bogus" /\ attrList[2].Colon = 0
    /\ errors = 2
    /\ ErrorAttrs = <<1, 2>>
    /\ attrRes.resInt = [k \in {"align"} |-> 0]

(***************************************************************************)
(* C14: no attribute of a node is applied when parsing its attributes      *)
(* raised an error.                                                        *)
(***************************************************************************)
AttrsRaiseError(s) == ParseAttrs(UnionAttrs, s.Attrs, EmptyMemo.d).d.errors > 0

\* no field by which a struct can be varlen: integers and pointers, none with an if
\* attribute
OnlyFixedFields(s) ==
    \A k \in 1..Len(s.Fields) :
        s.Fields[k].Type.kind \in {"int", "ptr"} /\ ~CarriesIf(s.Fields[k])

\* C14 as stated: a union whose attribute list raises an error is not classified as
\* varlen on account of a varlen attribute in that list: with fields that are all
\* fixed-size it is memoized as not varlen
C14_NoPartialApplication ==
    \A n \in DOMAIN structVarlen :
        (structs[n].IsUnion /\ AttrsRaiseError(structs[n]) /\ OnlyFixedFields(structs[n]))
            => ~structVarlen[n]

\* a union of fixed-size fields with varlen followed by an unknown attribute: the
\* error was raised and the union is memoized as varlen
C14_Witness ==
    /\ "A" \in DOMAIN structVarlen
    /\ structs["A"].IsUnion
    /\ structs["A"].Attrs = <<IdentNode("varlen", 0, <<>>), IdentNode("bogus", 0, <<>>)>>
    /\ OnlyFixedFields(structs["A"])
    /\ errors = 1
    /\ handled[1].msg = [type |-> "unknown attribute", attr |-> "bogus"]
    /\ structVarlen["A"]

(***************************************************************************)
(* C15: flattening commits at most 100,000 values to a flag group.         *)
(***************************************************************************)
ErrorsAt(g) == {i \in ErrorsOf("flattenFlags") : handled[i].pos = g}

\* g and every group its expansion passes through are within the limit
WithinLimit(fl, g) ==
    \A h \in Reach(fl, g) \cup {g} : LeafCount(fl, h) <= MaxFlagValues

DeclIndex(name) ==
    CHOOSE i \in 1..Len(nodes) :
        /\ nodes[i].kind \in FlagKinds /\ nodes[i].name = name
        /\ \A j \in 1..(i - 1) : ~(nodes[j].kind \in FlagKinds /\ nodes[j].name = name)

\* C16 as stated: of two errors of the flattening stage, the one for the group
\* declared earlier reaches the handler first
C16_DeclarationOrder ==
    \A i, j \in ErrorsOf("flattenFlags") :
        i < j => DeclIndex(handled[i].pos) <= DeclIndex(handled[j].pos)

\* two groups on one cycle, both rejected, the error for the one declared second
\* delivered first
C16_Witness ==
    /\ Entered("flattenFlags")
    /\ oracle = Quiet
    /\ errors = 2
    /\ DeclIndex(handled[1].pos) > DeclIndex(handled[2].pos)
    /\ OnCycle(DeclaredFlags("flags"), handled[1].pos)
    /\ handled[2].pos \in CycleOf(DeclaredFlags("flags"), handled[1].pos)

(***************************************************************************)
(* C17: flattening the flattened groups again changes nothing.             *)
(***************************************************************************)
\* a second run of flattenIntFlags or flattenStrFlags over the groups as they are
\* now, visiting them in the order given
SecondPass(kind, order) == FlattenInOrder(order, FlagsNow(kind), <<>>)

RejectedBy(errs) == {errs[i].pos : i \in 1..Len(errs)}

RejectedFirst(kind) ==
    {handled[i].pos : i \in ErrorsOf("flattenFlags")} \cap DOMAIN FlagsNow(kind)

\* C17 as stated: a second pass, in whatever order, leaves every group's Values as
\* they are and rejects exactly the groups the first pass rejected
C17_Idempotent ==
    Entered("flattenFlags") =>
        \A kind \in FlagKinds : \A order \in Perms(DOMAIN FlagsNow(kind)) :
            /\ SecondPass(kind, order).allFlags = FlagsNow(kind)
            /\ RejectedBy(SecondPass(kind, order).errs) = RejectedFirst(kind)

\* a group rejected by the first pass as using a group twice that every second pass
\* accepts and rewrites
C17_Witness ==
    /\ Entered("flattenFlags")
    /\ oracle = Quiet
    /\ Acyclic(DeclaredFlags("flags"))
    /\ \E g \in RejectedFirst("flags") :
          \A order \in Perms(DOMAIN intFlags) :
              /\ g \notin RejectedBy(SecondPass("flags", order).errs)
              /\ SecondPass("flags", order).allFlags[g] # intFlags[g]

====
